---- MODULE Spec2Model ----
(***************************************************************************)
(* s3etag: computation of AWS S3 ETags for local files                     *)
(* (src/s3etag/__init__.py).                                               *)
(*                                                                         *)
(* Text is a sequence of one-character strings.  A Python int is an        *)
(* unbounded natural, kept as a little-endian sequence of limbs of radix   *)
(* LimbBase without leading zero limbs (0 is <<>>), because 1024 ** 4      *)
(* does not fit the integers of the model checker.                         *)
(***************************************************************************)
EXTENDS Integers, Sequences, FiniteSets, TLC

VARIABLES
    pc,          \* position of the program
    argv,        \* command line of main: option items and file names
    fs,          \* the file system: path -> [exists, data]
    files,       \* args.files
    idx,         \* position of the loop of main in args.files
    filename,    \* calc_s3_etag: the filename argument [type, path]
    threshhold,  \* calc_s3_etag: the threshhold argument
    chunksize,   \* calc_s3_etag: the chunksize argument
    filesize,    \* calc_s3_etag: local filesize
    count,       \* calc_s3_etag: local count
    dgst_part,   \* calc_s3_etag: data hashed by the md5 object dgst_part
    dgst_whole,  \* calc_s3_etag: data hashed by the md5 object dgst_whole
    fpos,        \* read offset of the open file object fh
    handles,     \* the file objects that are open
    nfh,         \* number of file objects opened so far
    branch,      \* which branch of line 86 the current call took
    ret,         \* what calc_s3_etag returned: [kind, val]
    exc,         \* the exception that left the program, or "none"
    stdout,      \* lines written to standard output
    stderr,      \* lines written to standard error
    ops,         \* file-system calls made so far: <<call, path>>
    faults,      \* number of open/read calls the operating system failed
    size,        \* parse_chunksize: the argument
    parsed       \* parse_chunksize: the outcome

vars == <<pc, argv, fs, files, idx, filename, threshhold, chunksize, filesize,
          count, dgst_part, dgst_whole, fpos, handles, nfh, branch, ret, exc,
          stdout, stderr, ops, faults, size, parsed>>

(***************************************************************************)
(* Bounds of the model.                                                    *)
(***************************************************************************)
MaxLen == 4
MaxFileSize == 5
MaxThreshold == 3
MaxChunk == 4
MaxFiles == 2
MaxOpts == 1

(***************************************************************************)
(* Python int arithmetic on limbs.                                         *)
(***************************************************************************)
LimbBase == 2 ^ 10

RECURSIVE Norm(_)
Norm(a) ==
    IF a # <<>> /\ a[Len(a)] = 0 THEN Norm(SubSeq(a, 1, Len(a) - 1)) ELSE a

RECURSIVE FromNat(_)
FromNat(n) ==
    IF n = 0 THEN <<>> ELSE <<n % LimbBase>> \o FromNat(n \div LimbBase)

RECURSIVE ToNat(_)
ToNat(a) ==
    IF a = <<>> THEN 0 ELSE Head(a) + LimbBase * ToNat(Tail(a))

RECURSIVE AddC(_, _, _)
AddC(a, b, c) ==
    IF a = <<>> /\ b = <<>>
    THEN IF c = 0 THEN <<>> ELSE <<c>>
    ELSE LET x == IF a = <<>> THEN 0 ELSE Head(a)
             y == IF b = <<>> THEN 0 ELSE Head(b)
             s == x + y + c
         IN  <<s % LimbBase>>
             \o AddC(IF a = <<>> THEN <<>> ELSE Tail(a),
                     IF b = <<>> THEN <<>> ELSE Tail(b),
                     s \div LimbBase)

RECURSIVE MulSmall(_, _, _)
MulSmall(a, d, c) ==
    IF a = <<>>
    THEN IF c = 0 THEN <<>> ELSE <<c>>
    ELSE LET p == Head(a) * d + c
         IN  <<p % LimbBase>> \o MulSmall(Tail(a), d, p \div LimbBase)

PyAdd(a, b) == Norm(AddC(a, b, 0))

RECURSIVE PyMul(_, _)
PyMul(a, b) ==
    IF a = <<>> \/ b = <<>>
    THEN <<>>
    ELSE Norm(AddC(MulSmall(a, Head(b), 0), <<0>> \o PyMul(a, Tail(b)), 0))

RECURSIVE PyPow(_, _)
PyPow(a, k) == IF k = 0 THEN FromNat(1) ELSE PyMul(a, PyPow(a, k - 1))

(***************************************************************************)
(* parse_chunksize (lines 45-61).                                          *)
(***************************************************************************)
\* The characters of a size argument.  "U+0663" is ARABIC-INDIC DIGIT THREE,
\* a decimal digit for \d and for int(); "\n" is a line feed.
AsciiDigits == {"0", "1", "2", "3", "4", "5", "6", "7", "8", "9"}
Alphabet ==
    {"0", "1", "2", "8", "U+0663", "K", "M", "G", "T", "B", "k", "X", ".", "-", "\n"}

\* \d of a str pattern: every Unicode decimal digit.
IsDigit(ch) == ch \in AsciiDigits \cup {"U+0663"}

\* The value int() gives a decimal digit.
DigitVal(ch) ==
    IF ch = "U+0663"
    THEN 3
    ELSE CHOOSE d \in 0..9 : <<"0", "1", "2", "3", "4", "5", "6", "7", "8", "9">>[d + 1] = ch

\* The length of the run of \d at the start of s, which the greedy (\d+) takes.
RECURSIVE DigitRun(_)
DigitRun(s) ==
    IF s # <<>> /\ IsDigit(Head(s)) THEN 1 + DigitRun(Tail(s)) ELSE 0

NoMatch == [matched |-> FALSE, num |-> <<>>, suffix |-> <<>>]

\* re.fullmatch(r"(\d+)([KMGT]B)?", s) followed by match.groups("").
fullmatch_loose(s) ==
    LET n == DigitRun(s)
        rest == SubSeq(s, n + 1, Len(s))
        num == SubSeq(s, 1, n)
    IN  IF n < 1 THEN NoMatch
        ELSE IF Len(rest) >= 2 /\ rest[1] \in {"K", "M", "G", "T"} /\ rest[2] = "B"
             THEN [matched |-> TRUE, num |-> num, suffix |-> SubSeq(rest, 1, 2)]
             ELSE [matched |-> TRUE, num |-> num, suffix |-> <<>>]

fullmatch(s) ==
    LET n == DigitRun(s)
        rest == SubSeq(s, n + 1, Len(s))
        num == SubSeq(s, 1, n)
    IN  IF n < 1 THEN NoMatch
        ELSE IF rest = <<>>
             THEN [matched |-> TRUE, num |-> num, suffix |-> <<>>]
             ELSE IF Len(rest) = 2 /\ rest[1] \in {"K", "M", "G", "T"} /\ rest[2] = "B"
                  THEN [matched |-> TRUE, num |-> num, suffix |-> rest]
                  ELSE NoMatch

\* int(num) for a run of decimal digits.
RECURSIVE PyInt(_)
PyInt(num) ==
    IF num = <<>>
    THEN <<>>
    ELSE LET n == Len(num)
         IN  PyAdd(MulSmall(PyInt(SubSeq(num, 1, n - 1)), 10, 0),
                   FromNat(DigitVal(num[n])))

\* The dictionary of lines 54-60.
Multiplier_GBasMB(suffix) ==
    CASE suffix = <<>> -> FromNat(1)
      [] suffix = <<"K", "B">> -> PyPow(FromNat(1024), 1)
      [] suffix = <<"M", "B">> -> PyPow(FromNat(1024), 2)
      [] suffix = <<"G", "B">> -> PyPow(FromNat(1024), 2)
      [] suffix = <<"T", "B">> -> PyPow(FromNat(1024), 4)

Multiplier(suffix) ==
    CASE suffix = <<>> -> FromNat(1)
      [] suffix = <<"K", "B">> -> PyPow(FromNat(1024), 1)
      [] suffix = <<"M", "B">> -> PyPow(FromNat(1024), 2)
      [] suffix = <<"G", "B">> -> PyPow(FromNat(1024), 3)
      [] suffix = <<"T", "B">> -> PyPow(FromNat(1024), 4)

\* The outcome of parse_chunksize(s): the int returned, or the message of the
\* argparse.ArgumentTypeError raised.
parse_chunksize(s) ==
    LET match == fullmatch(s)
    IN  IF ~match.matched
        THEN [ok |-> FALSE,
              value |-> <<>>,
              msg |-> <<"invalid size value: '">> \o s \o <<"'">>]
        ELSE [ok |-> TRUE,
              value |-> PyMul(PyInt(match.num), Multiplier(match.suffix)),
              msg |-> <<>>]

(***************************************************************************)
(* hashlib.md5, str.format.                                                *)
(*                                                                         *)
(* MD5 is taken collision-free: the raw digest of data is the term         *)
(* <<2>> \o data \o <<3>> over the file bytes 0 and 1, so that two digests  *)
(* are equal exactly when the data hashed are equal, and the digest of a   *)
(* concatenation of digests can be told from the digest of file content.   *)
(***************************************************************************)
Bytes == {0, 1}

\* md5(data).digest()
md5_digest(data) == <<2>> \o data \o <<3>>

HexChar(b) ==
    CASE b = 0 -> "0"
      [] b = 1 -> "1"
      [] b = 2 -> "a"
      [] b = 3 -> "f"

\* md5(data).hexdigest(): the digest written in lowercase hexadecimal.
md5_hexdigest(data) ==
    LET d == md5_digest(data) IN [k \in 1..Len(d) |-> HexChar(d[k])]

DecChar(d) == <<"0", "1", "2", "3", "4", "5", "6", "7", "8", "9">>[d + 1]

\* str(n) for an int n >= 0.
RECURSIVE PyStr(_)
PyStr(n) ==
    IF n < 10 THEN <<DecChar(n)>> ELSE PyStr(n \div 10) \o <<DecChar(n % 10)>>

FormatWidth == 39

\* "{: <39s} {}".format(etag, f)
FormatLine(etag, f) ==
    etag \o [k \in 1..(IF Len(etag) < FormatWidth THEN FormatWidth - Len(etag) ELSE 0) |-> " "]
         \o <<" ", f>>

(***************************************************************************)
(* calc_s3_etag (lines 64-118).                                            *)
(***************************************************************************)
DefaultSize == 8388608

\* The test of line 86.
SinglePart_strict(fsz, th) == fsz < th

SinglePart(fsz, th) == fsz <= th

\* fh.read(): the rest of the file from offset pos.
ReadAll(data, pos) == SubSeq(data, pos + 1, Len(data))

\* fh.read(n) for n >= 0: at most n bytes from offset pos, fewer only at the
\* end of the file.
FileRead_short(data, pos, n) ==
    SubSeq(data, pos + 1, IF pos + n - 1 < Len(data) THEN pos + n - 1 ELSE Len(data))

FileRead(data, pos, n) ==
    SubSeq(data, pos + 1, IF pos + n < Len(data) THEN pos + n ELSE Len(data))

\* dgst_part = hashlib.md5(buf); dgst_whole.update(dgst_part.digest())
WholeUpdate_content(whole, buf) == whole \o buf

WholeUpdate(whole, buf) == whole \o md5_digest(buf)

\* Lines 112-116.
MultipartEtag_from1(cnt, part, whole) ==
    IF cnt > 0
    THEN md5_hexdigest(whole) \o <<"-">> \o PyStr(cnt)
    ELSE md5_hexdigest(part)

MultipartEtag(cnt, part, whole) ==
    IF cnt > 1
    THEN md5_hexdigest(whole) \o <<"-">> \o PyStr(cnt)
    ELSE md5_hexdigest(part)

\* Leaving the with block of lines 88 and 100 closes fh, whether the block
\* ends or raises.
WithExit_leak(hs, h, raised) == IF raised THEN hs ELSE hs \ {h}

WithExit(hs, h, raised) == hs \ {h}

\* The errno of an OSError of open() and of read().
OpenErrnos == {13}
ReadErrnos == {5}

\* print("ERROR: {}".format(err), file=sys.stderr, flush=True)
ErrorLine(errno) == <<"ERROR: ", "[Errno ", PyStr(errno), "]">>

\* What the interpreter writes when an exception leaves main.
Traceback(e) == <<"Traceback", e>>

\* An exception nothing catches: it leaves calc_s3_etag, and main when main
\* made the call (files is not empty).
Uncaught(e) ==
    /\ exc' = e
    /\ pc' = "raised"
    /\ stderr' = IF files # <<>> THEN Append(stderr, Traceback(e)) ELSE stderr

\* Lines 79-86 and 96-98: the size of the file and the choice of the branch.
calc_entry ==
    /\ pc = "call"
    /\ UNCHANGED <<argv, fs, files, idx, filename, threshhold, chunksize, fpos,
                   handles, nfh, ret, faults, size, parsed>>
    /\ IF filename.type \notin {"PosixPath", "str"}
       THEN \* line 84 prints to standard output, line 86 reads the unbound filesize
            /\ stdout' = Append(stdout, <<"invalid filename", "<stderr>">>)
            /\ Uncaught("UnboundLocalError")
            /\ UNCHANGED <<filesize, count, dgst_part, dgst_whole, branch, ops>>
       ELSE /\ ops' = Append(ops, <<"stat", filename.path>>)
            /\ UNCHANGED stdout
            /\ IF ~fs[filename.path].exists
               THEN /\ Uncaught("FileNotFoundError")
                    /\ UNCHANGED <<filesize, count, dgst_part, dgst_whole, branch>>
               ELSE /\ filesize' = Len(fs[filename.path].data)
                    /\ UNCHANGED <<exc, stderr>>
                    /\ IF SinglePart(filesize', threshhold)
                       THEN /\ branch' = "single"
                            /\ pc' = "open"
                            /\ UNCHANGED <<count, dgst_part, dgst_whole>>
                       ELSE /\ branch' = "multi"
                            /\ pc' = "open"
                            /\ count' = 0
                            /\ dgst_part' = <<>>
                            /\ dgst_whole' = <<>>

\* except OSError (lines 91-93 and 108-110).
ExceptOSError(errno) ==
    /\ stderr' = Append(stderr, ErrorLine(errno))
    /\ ret' = [kind |-> "int", val |-> errno]
    /\ pc' = "return"

\* open(filename, "rb") of lines 88 and 100.
calc_open ==
    /\ pc = "open"
    /\ ops' = Append(ops, <<"open", filename.path>>)
    /\ UNCHANGED <<argv, fs, files, idx, filename, threshhold, chunksize, filesize,
                   count, dgst_part, dgst_whole, branch, exc, stdout, size, parsed>>
    /\ \E fail \in BOOLEAN :
         IF fail
         THEN /\ \E errno \in OpenErrnos : ExceptOSError(errno)
              /\ faults' = faults + 1
              /\ UNCHANGED <<handles, nfh, fpos>>
         ELSE /\ nfh' = nfh + 1
              /\ handles' = handles \cup {nfh + 1}
              /\ fpos' = 0
              /\ pc' = IF branch = "single" THEN "read_single" ELSE "read_chunk"
              /\ UNCHANGED <<ret, stderr, faults>>

\* Lines 89-90 and the end of the with block.
calc_read_single ==
    /\ pc = "read_single"
    /\ ops' = Append(ops, <<"read", filename.path>>)
    /\ UNCHANGED <<argv, fs, files, idx, filename, threshhold, chunksize, filesize,
                   count, dgst_part, dgst_whole, branch, exc, stdout, nfh, fpos,
                   size, parsed>>
    /\ \E fail \in BOOLEAN :
         IF fail
         THEN /\ handles' = WithExit(handles, nfh, TRUE)
              /\ \E errno \in ReadErrnos : ExceptOSError(errno)
              /\ faults' = faults + 1
         ELSE /\ handles' = WithExit(handles, nfh, FALSE)
              /\ ret' = [kind |-> "str",
                         val |-> md5_hexdigest(ReadAll(fs[filename.path].data, fpos))]
              /\ pc' = "return"
              /\ UNCHANGED <<stderr, faults>>

\* One turn of the loop of lines 101-107; on the empty read the loop ends,
\* the with block is left and lines 112-118 make the result.
calc_read_chunk ==
    /\ pc = "read_chunk"
    /\ ops' = Append(ops, <<"read", filename.path>>)
    /\ UNCHANGED <<argv, fs, files, idx, filename, threshhold, chunksize, filesize,
                   branch, exc, stdout, nfh, size, parsed>>
    /\ \E fail \in BOOLEAN :
         IF fail
         THEN /\ handles' = WithExit(handles, nfh, TRUE)
              /\ \E errno \in ReadErrnos : ExceptOSError(errno)
              /\ faults' = faults + 1
              /\ UNCHANGED <<count, dgst_part, dgst_whole, fpos>>
         ELSE LET buf == FileRead(fs[filename.path].data, fpos, chunksize)
              IN  IF Len(buf) < 1
                  THEN /\ handles' = WithExit(handles, nfh, FALSE)
                       /\ ret' = [kind |-> "str",
                                  val |-> MultipartEtag(count, dgst_part, dgst_whole)]
                       /\ pc' = "return"
                       /\ UNCHANGED <<count, dgst_part, dgst_whole, fpos, stderr, faults>>
                  ELSE /\ count' = count + 1
                       /\ dgst_part' = buf
                       /\ dgst_whole' = WholeUpdate(dgst_whole, buf)
                       /\ fpos' = fpos + Len(buf)
                       /\ UNCHANGED <<handles, ret, pc, stderr, faults>>

(***************************************************************************)
(* main (lines 11-42).                                                     *)
(***************************************************************************)
\* The command line is a sequence of items [opt, val]: opt is "-t" or "-c"
\* with the size text val, or "file" with the path val.

\* The namespace before the command line is read: the defaults of lines 20
\* and 28, which argparse converts with type= as it does a given value.
Defaults ==
    [ok |-> TRUE,
     msg |-> <<>>,
     threshhold |-> ToNat(parse_chunksize(<<"8", "M", "B">>).value),
     chunksize |-> ToNat(parse_chunksize(<<"8", "M", "B">>).value),
     files |-> <<>>]

\* parser.parse_args(): the items are taken in order; the first size that
\* parse_chunksize refuses ends the parse with parser.error().
RECURSIVE ParseArgs(_, _)
ParseArgs(items, ns) ==
    IF items = <<>>
    THEN ns
    ELSE LET it == Head(items)
         IN  IF it.opt = "file"
             THEN ParseArgs(Tail(items), [ns EXCEPT !.files = Append(@, it.val)])
             ELSE LET r == parse_chunksize(it.val)
                  IN  IF ~r.ok
                      THEN [ns EXCEPT !.ok = FALSE, !.msg = r.msg]
                      ELSE IF it.opt = "-t"
                           THEN ParseArgs(Tail(items),
                                          [ns EXCEPT !.threshhold = ToNat(r.value)])
                           ELSE ParseArgs(Tail(items),
                                          [ns EXCEPT !.chunksize = ToNat(r.value)])

\* Lines 13-33.
main_parse_args ==
    /\ pc = "parse_args"
    /\ UNCHANGED <<argv, fs, filename, filesize, count, dgst_part, dgst_whole, fpos,
                   handles, nfh, branch, ret, stdout, ops, faults, size, parsed>>
    /\ LET ns == ParseArgs(argv, Defaults)
       IN  IF ~ns.ok
           THEN \* parser.error(): usage and message on standard error, exit status 2
                /\ stderr' = Append(stderr, <<"usage", "error: ">> \o ns.msg)
                /\ exc' = "SystemExit"
                /\ pc' = "exit"
                /\ UNCHANGED <<files, idx, threshhold, chunksize>>
           ELSE /\ files' = ns.files
                /\ threshhold' = ns.threshhold
                /\ chunksize' = ns.chunksize
                /\ idx' = 1
                /\ pc' = "loop"
                /\ UNCHANGED <<stderr, exc>>

\* Lines 36-41: the next file of the loop is handed to calc_s3_etag.
main_loop ==
    /\ pc = "loop"
    /\ UNCHANGED <<argv, fs, files, idx, threshhold, chunksize, filesize, count,
                   dgst_part, dgst_whole, fpos, handles, nfh, branch, ret, exc,
                   stdout, stderr, ops, faults, size, parsed>>
    /\ IF idx > Len(files)
       THEN /\ pc' = "done"
            /\ UNCHANGED filename
       ELSE /\ filename' = [type |-> "str", path |-> files[idx]]
            /\ pc' = "call"

\* Line 42: the format code s refuses the int that calc_s3_etag returns after
\* an OSError (ValueError).
main_print ==
    /\ pc = "return"
    /\ files # <<>>
    /\ UNCHANGED <<argv, fs, files, filename, threshhold, chunksize, filesize, count,
                   dgst_part, dgst_whole, fpos, handles, nfh, branch, ret, ops,
                   faults, size, parsed>>
    /\ IF ret.kind = "str"
       THEN /\ stdout' = Append(stdout, FormatLine(ret.val, files[idx]))
            /\ idx' = idx + 1
            /\ pc' = "loop"
            /\ UNCHANGED <<exc, stderr>>
       ELSE /\ Uncaught("ValueError")
            /\ UNCHANGED <<stdout, idx>>

\* One call of parse_chunksize.
parse_step ==
    /\ pc = "parse"
    /\ parsed' = parse_chunksize(size)
    /\ pc' = "parsed"
    /\ UNCHANGED <<argv, fs, files, idx, filename, threshhold, chunksize, filesize,
                   count, dgst_part, dgst_whole, fpos, handles, nfh, branch, ret,
                   exc, stdout, stderr, ops, faults, size>>

(***************************************************************************)
(* Initial states and specifications.                                      *)
(***************************************************************************)
SeqsUpTo(S, n) == UNION {[1..k -> S] : k \in 0..n}

Paths == {"a", "b", "n"}

NoFile == [exists |-> FALSE, data |-> <<>>]

\* The file system of the runs of main: "n" does not exist.
MainFS ==
    [p \in Paths |->
        CASE p = "a" -> [exists |-> TRUE, data |-> <<0, 1, 1>>]
          [] p = "b" -> [exists |-> TRUE, data |-> <<1>>]
          [] p = "n" -> NoFile]

\* The option items of the runs of main.
OptItems ==
    {[opt |-> "-t", val |-> <<"1">>], [opt |-> "-t", val |-> <<"1", "x">>],
     [opt |-> "-c", val |-> <<"2">>], [opt |-> "-c", val |-> <<"2", "k", "B">>]}

FileItems == {[opt |-> "file", val |-> p] : p \in Paths}

Idle ==
    /\ filesize = 0
    /\ count = 0
    /\ dgst_part = <<>>
    /\ dgst_whole = <<>>
    /\ fpos = 0
    /\ handles = {}
    /\ nfh = 0
    /\ branch = "none"
    /\ ret = [kind |-> "none", val |-> <<>>]
    /\ exc = "none"
    /\ stdout = <<>>
    /\ stderr = <<>>
    /\ ops = <<>>
    /\ faults = 0
    /\ parsed = [ok |-> FALSE, value |-> <<>>, msg |-> <<>>]

\* main started with options before and after one or more file names.
InitMain ==
    /\ Idle
    /\ pc = "parse_args"
    /\ \E pre \in SeqsUpTo(OptItems, MaxOpts), post \in SeqsUpTo(OptItems, MaxOpts),
          fl \in SeqsUpTo(FileItems, MaxFiles) \ {<<>>} :
          argv = pre \o fl \o post
    /\ fs = MainFS
    /\ files = <<>>
    /\ idx = 0
    /\ filename = [type |-> "str", path |-> "a"]
    /\ threshhold = 0
    /\ chunksize = 0
    /\ size = <<>>

\* calc_s3_etag called with any filename, threshhold and chunksize.
InitCalc ==
    /\ Idle
    /\ pc = "call"
    /\ argv = <<>>
    /\ files = <<>>
    /\ idx = 0
    /\ \E data \in SeqsUpTo(Bytes, MaxFileSize) :
          fs = [MainFS EXCEPT !["a"] = [exists |-> TRUE, data |-> data]]
    /\ filename \in [type : {"str", "PosixPath", "int"}, path : {"a", "n"}]
    /\ threshhold \in 0..MaxThreshold \cup {DefaultSize}
    /\ chunksize \in 0..MaxChunk \cup {DefaultSize}
    /\ size = <<>>

\* parse_chunksize called with any text.
InitParse ==
    /\ Idle
    /\ pc = "parse"
    /\ argv = <<>>
    /\ fs = MainFS
    /\ files = <<>>
    /\ idx = 0
    /\ filename = [type |-> "str", path |-> "a"]
    /\ threshhold = 0
    /\ chunksize = 0
    /\ size \in SeqsUpTo(Alphabet, MaxLen)

NextCalc == calc_entry \/ calc_open \/ calc_read_single \/ calc_read_chunk

NextMain ==
    \/ main_parse_args
    \/ main_loop
    \/ calc_entry
    \/ calc_open
    \/ calc_read_single
    \/ calc_read_chunk
    \/ main_print

NextParse == parse_step

SpecCalc == InitCalc /\ [][NextCalc]_vars

SpecMain == InitMain /\ [][NextMain]_vars

SpecParse == InitParse /\ [][NextParse]_vars

Spec == SpecMain

(***************************************************************************)
(* Properties.                                                             *)
(***************************************************************************)
\* The content of the file the current call of calc_s3_etag is about.
Content == fs[filename.path].data

\* calc_s3_etag returned an ETag (not the errno of an OSError).
ReturnedEtag == pc = "return" /\ ret.kind = "str"

EndsWith(s, t) ==
    Len(s) >= Len(t) /\ SubSeq(s, Len(s) - Len(t) + 1, Len(s)) = t

\* t occurs in s as a run of consecutive elements.
Contains(s, t) ==
    \E i \in 0..(Len(s) - Len(t)) : SubSeq(s, i + 1, i + Len(t)) = t

\* C1: whenever filesize <= threshhold (the boundary and the empty file
\* included) and the file is read, calc_s3_etag takes the single-part branch
\* and returns the MD5 hex digest of the whole content, without a "-<count>"
\* suffix, for every chunksize.
C1_SinglePartIsPlainMd5 ==
    (ReturnedEtag /\ Len(Content) <= threshhold)
        => /\ branch = "single"
           /\ ret.val = md5_hexdigest(Content)
           /\ \A k \in 1..Len(ret.val) : ret.val[k] # "-"

\* A file of exactly threshhold bytes, longer than one chunk, was returned.
C1_Witness ==
    /\ ReturnedEtag
    /\ Len(Content) = threshhold
    /\ chunksize > 0
    /\ chunksize < Len(Content)

CeilDiv(a, b) == (a + b - 1) \div b

\* The k-th chunk of chunksize cs of data, k = 1, 2, ...
Chunk(data, k, cs) ==
    SubSeq(data, (k - 1) * cs + 1, IF k * cs < Len(data) THEN k * cs ELSE Len(data))

\* The raw digests of the first n chunks, one after the other.
RECURSIVE ConcatDigests(_, _, _)
ConcatDigests(data, cs, n) ==
    IF n = 0
    THEN <<>>
    ELSE ConcatDigests(data, cs, n - 1) \o md5_digest(Chunk(data, n, cs))

\* C2: whenever filesize > threshhold and two or more chunks were read, the
\* result is "<hex>-<count>", hex the MD5 of the raw digests of the chunks in
\* order and count = ceil(filesize / chunksize).
C2_MultipartEtag ==
    (ReturnedEtag /\ Len(Content) > threshhold /\ count >= 2)
        => /\ chunksize > 0
           /\ count = CeilDiv(Len(Content), chunksize)
           /\ ret.val = md5_hexdigest(ConcatDigests(Content, chunksize, count))
                            \o <<"-">> \o PyStr(count)

\* Three chunks, the last one shorter, were digested.
C2_Witness ==
    /\ ReturnedEtag
    /\ Len(Content) > threshhold
    /\ count = 3
    /\ Len(Content) % chunksize # 0

\* C3: a file above the threshhold that fits one chunk gets the ETag of the
\* single-part branch, and no returned ETag carries a count below 2.
C3_NoSuffixOne ==
    ReturnedEtag
        => /\ (Len(Content) > threshhold /\ Len(Content) <= chunksize)
                 => ret.val = md5_hexdigest(Content)
           /\ \A k \in 1..Len(ret.val) :
                 ret.val[k] = "-"
                     => \E c \in 2..(Len(Content) + 2) :
                           SubSeq(ret.val, k + 1, Len(ret.val)) = PyStr(c)

\* The chunk loop ran and met one chunk.
C3_Witness ==
    /\ ReturnedEtag
    /\ branch = "multi"
    /\ count = 1
    /\ Len(Content) > threshhold
    /\ Len(Content) <= chunksize

\* The file of threshold + 1 bytes read with chunksize = threshold.
C6_Case == ReturnedEtag /\ Len(Content) = threshhold + 1 /\ chunksize = threshhold

\* C6 as stated: for every threshold >= 0 that file is read as 2 chunks and
\* its ETag ends in "-2".
C6_AnyThreshold == C6_Case => (count = 2 /\ EndsWith(ret.val, <<"-", "2">>))

\* C6 amended: for every threshold >= 1 that file is read as 2 chunks and its
\* ETag ends in "-2".
C6_PositiveThreshold ==
    (C6_Case /\ threshhold >= 1) => (count = 2 /\ EndsWith(ret.val, <<"-", "2">>))

C6_Witness == C6_Case /\ threshhold >= 2 /\ count = 2

\* The size texts parse_chunksize is to accept: digits, then nothing or one of
\* KB, MB, GB, TB.
Suffixes == {<<>>, <<"K", "B">>, <<"M", "B">>, <<"G", "B">>, <<"T", "B">>}

WellFormedAt(s, n) ==
    /\ \A k \in 1..n : IsDigit(s[k])
    /\ SubSeq(s, n + 1, Len(s)) \in Suffixes

WellFormed(s) == \E n \in 1..Len(s) : WellFormedAt(s, n)

RECURSIVE DecValue(_)
DecValue(digits) ==
    IF digits = <<>>
    THEN 0
    ELSE 10 * DecValue(SubSeq(digits, 1, Len(digits) - 1))
         + DigitVal(digits[Len(digits)])

SuffixExp(suffix) ==
    CASE suffix = <<>> -> 0
      [] suffix = <<"K", "B">> -> 1
      [] suffix = <<"M", "B">> -> 2
      [] suffix = <<"G", "B">> -> 3
      [] suffix = <<"T", "B">> -> 4

\* digits x 1024^e in limbs: the limbs of the digits' value above e zero limbs.
ExpectedSize(s) ==
    LET n == CHOOSE n \in 1..Len(s) : WellFormedAt(s, n)
        v == DecValue(SubSeq(s, 1, n))
        e == SuffixExp(SubSeq(s, n + 1, Len(s)))
    IN  IF v = 0 THEN <<>> ELSE [k \in 1..e |-> 0] \o FromNat(v)

\* C8: parse_chunksize returns digits x multiplier for digits with an
\* optional KB/MB/GB/TB, fails with a message holding the text for every
\* other text, and its result is a non-negative integer.
C8_ParseChunksize ==
    pc = "parsed"
        => /\ WellFormed(size)
                 => (parsed.ok /\ parsed.value = ExpectedSize(size))
           /\ ~WellFormed(size)
                 => (~parsed.ok /\ Contains(parsed.msg, size))
           /\ \A k \in 1..Len(parsed.value) : parsed.value[k] \in 0..(LimbBase - 1)
           /\ parsed.value = Norm(parsed.value)

\* "2GB" gave 2 x 1024^3 = 2147483648.
C8_Witness ==
    /\ pc = "parsed"
    /\ size = <<"2", "G", "B">>
    /\ parsed.ok
    /\ parsed.value = <<0, 0, 0, 2>>

\* A size option of the command line is malformed.
Malformed ==
    \E k \in 1..Len(argv) : argv[k].opt \in {"-t", "-c"} /\ ~WellFormed(argv[k].val)

\* C7: with a malformed threshold or chunksize, wherever it stands on the
\* command line, main ends in the argument parser: no file is stat-ed,
\* opened or read and nothing is printed.
C7_MalformedSizeAborts ==
    Malformed
        => /\ pc \in {"parse_args", "exit"}
           /\ ops = <<>>
           /\ stdout = <<>>
           /\ handles = {}

\* The parser refused a size given after the file names.
C7_Witness ==
    /\ pc = "exit"
    /\ Len(argv) >= 2
    /\ argv[1].opt = "file"
    /\ ~WellFormed(argv[Len(argv)].val)

\* C9: at most one file object is open, and none is open outside the with
\* block: not when calc_s3_etag has returned or raised, nor when main moves
\* to the next file.
C9_OneHandleClosedOnExit ==
    /\ Cardinality(handles) <= 1
    /\ pc \notin {"read_single", "read_chunk"} => handles = {}

\* The second file's read failed after a chunk was digested.
C9_Witness ==
    /\ pc = "return"
    /\ ret.kind = "int"
    /\ branch = "multi"
    /\ count >= 1
    /\ idx = 2
    /\ nfh = 2
    /\ handles = {}

\* The run of main is over.
Terminated == pc \in {"done", "raised", "exit"}

\* The lines of standard output that end with the path p.
LinesOf(p) == {j \in 1..Len(stdout) : stdout[j][Len(stdout[j])] = p}

Occurrences(p) == {k \in 1..Len(files) : files[k] = p}

\* C4: a missing path of the batch is reported on standard error and every
\* existing file of the batch still gets its line.
C4_MissingFileDoesNotAbort ==
    (/\ Terminated
     /\ ~Malformed
     /\ faults = 0
     /\ \E k \in 1..Len(argv) : argv[k] = [opt |-> "file", val |-> "n"])
        => /\ stderr # <<>>
           /\ \A p \in {"a", "b"} :
                 Cardinality(LinesOf(p)) = Cardinality(Occurrences(p))

\* C5: after an OSError of open or read, "ERROR: ..." is on standard error,
\* the file's line is written with the errno, and the files after it are
\* processed.
C5_OSErrorLineAndContinue ==
    (/\ Terminated
     /\ ~Malformed
     /\ \A k \in 1..Len(argv) : argv[k] # [opt |-> "file", val |-> "n"])
        => /\ pc = "done"
           /\ Len(stdout) = Len(files)
           /\ Len(stderr) = faults
           /\ \A j \in 1..Len(stderr) : stderr[j][1] = "ERROR: "

\* C10: a filename that is neither a path object nor a string does not make
\* calc_s3_etag raise; the usage error is on standard error and no file is
\* opened.
C10_UnsupportedTypeReported ==
    (filename.type \notin {"PosixPath", "str"} /\ pc # "call")
        => /\ exc = "none"
           /\ \E j \in 1..Len(stderr) : stderr[j][1] = "invalid filename"
           /\ \A j \in 1..Len(ops) : ops[j][1] # "open"

====
